---- MODULE Spec2Model ----
(***************************************************************************)
(* Model of final.py: load_products (run once at import) and               *)
(* filter_products (the Gradio click handler).                             *)
(*                                                                         *)
(* Text is a sequence of one-character strings, so that str.strip and the  *)
(* substring test `in` are computed.  A JSON value is a record tagged by   *)
(* t: "num" (int), "str", "null", "bool", "arr", "obj".  A Python float is *)
(* [nan |-> FALSE, n |-> value] or NaN.                                     *)
(***************************************************************************)
EXTENDS Integers, Sequences, FiniteSets, TLC

\* ---------------------------------------------------------------- bounds
\* longest JSON array enumerated element by element
MaxLen == 2
\* length of the one long array (30 matching records against topk = 20)
LongLen == 30

\* ------------------------------------------------------------------ text
WS == {" "}

\* str.strip(): drop leading and trailing whitespace
RECURSIVE LStrip(_)
LStrip(s) == IF s # <<>> /\ Head(s) \in WS THEN LStrip(Tail(s)) ELSE s

RECURSIVE RStrip(_)
RStrip(s) ==
    IF s # <<>> /\ s[Len(s)] \in WS THEN RStrip(SubSeq(s, 1, Len(s) - 1)) ELSE s

Strip(s) == RStrip(LStrip(s))

\* q in s  (contiguous substring)
Contains(q, s) ==
    \E i \in 0..(Len(s) - Len(q)) : SubSeq(s, i + 1, i + Len(q)) = q

DigitChars == <<"0", "1", "2", "3", "4", "5", "6", "7", "8", "9">>

RECURSIVE Digits(_)
Digits(n) ==
    IF n < 10 THEN <<DigitChars[n + 1]>>
    ELSE Digits(n \div 10) \o <<DigitChars[(n % 10) + 1]>>

DigitVal(c) == CHOOSE d \in 0..9 : DigitChars[d + 1] = c

IsDigit(c) == \E d \in 0..9 : DigitChars[d + 1] = c

RECURSIVE DigitsVal(_)
DigitsVal(s) ==
    IF s = <<>> THEN 0
    ELSE 10 * DigitsVal(SubSeq(s, 1, Len(s) - 1)) + DigitVal(s[Len(s)])

\* ----------------------------------------------------------- JSON values
JNum(n)  == [t |-> "num", n |-> n]
JStr(s)  == [t |-> "str", s |-> s]
JNull    == [t |-> "null"]
JBool(b) == [t |-> "bool", b |-> b]
JArr(a)  == [t |-> "arr", items |-> a]
JObj(f)  == [t |-> "obj", f |-> f]

\* str(v) / format(v, "") of a parsed JSON value
Str(v) ==
    CASE v.t = "num"  -> Digits(v.n)
      [] v.t = "str"  -> v.s
      [] v.t = "null" -> <<"N", "o", "n", "e">>
      [] v.t = "bool" -> IF v.b THEN <<"T", "r", "u", "e">>
                                ELSE <<"F", "a", "l", "s", "e">>
      [] v.t = "arr"  -> <<"[", "]">>
      [] v.t = "obj"  -> <<"{", "}">>

\* Python floats
Fin(n) == [nan |-> FALSE, n |-> n]
NaN    == [nan |-> TRUE, n |-> 0]

\* a <= b on floats: every comparison with NaN is False
Le(a, b) == ~a.nan /\ ~b.nan /\ a.n <= b.n

\* float(v): [ok |-> TRUE, val |-> float] or [ok |-> FALSE] when it raises
\* (ValueError for text that is no number, TypeError for None, list, dict)
FloatOf(v) ==
    CASE v.t = "num"  -> [ok |-> TRUE, val |-> Fin(v.n)]
      [] v.t = "bool" -> [ok |-> TRUE, val |-> Fin(IF v.b THEN 1 ELSE 0)]
      [] v.t = "str"  ->
            LET s == Strip(v.s) IN
            IF s # <<>> /\ \A i \in 1..Len(s) : IsDigit(s[i])
              THEN [ok |-> TRUE, val |-> Fin(DigitsVal(s))]
            ELSE IF s = <<"n", "a", "n">>
              THEN [ok |-> TRUE, val |-> NaN]
            ELSE [ok |-> FALSE, val |-> Fin(0)]
      [] OTHER        -> [ok |-> FALSE, val |-> Fin(0)]

\* ---------------------------------------------------------------- loader
\* The data file as load_products finds it: absent; present but open() or
\* read() fails; present with bytes that are no JSON; or a JSON document.
FileAbsent     == [kind |-> "absent", value |-> JNull]
FileUnreadable == [kind |-> "unreadable", value |-> JNull]
FileBadJson    == [kind |-> "badjson", value |-> JNull]
FileJson(v)    == [kind |-> "json", value |-> v]

\* os.path.exists(DATA_FILE)
Exists(file) == file.kind # "absent"

\* with open(...) as f: data = json.load(f)  -- raises or yields the value
ReadJson(file) ==
    IF file.kind = "json" THEN [exc |-> FALSE, data |-> file.value]
    ELSE [exc |-> TRUE, data |-> JNull]

LoadFail(why) ==
    [raised |-> FALSE, data |-> <<>>, msg |-> [ok |-> FALSE, why |-> why, count |-> 0]]

\* an exception leaving load_products (no path of the code produces it)
LoadRaise ==
    [raised |-> TRUE, data |-> <<>>, msg |-> [ok |-> FALSE, why |-> "raised", count |-> 0]]

\* except Exception as e: every error of open() and json.load() is caught
Caught(r) == r.exc

LoadOk(items) ==
    [raised |-> FALSE, data |-> items,
     msg |-> [ok |-> TRUE, why |-> "", count |-> Len(items)]]

IsList_anything(data) == TRUE

\* isinstance(data, list)
IsList(data) == data.t = "arr"

\* what the array-typed return value holds; a non-list slips through only
\* when the isinstance test is wrong, and is then held as it was parsed
AsSeq(data) == IF data.t = "arr" THEN data.items ELSE <<data>>

load_products(file) ==
    IF ~Exists(file) THEN LoadFail("missing")
    ELSE LET r == ReadJson(file) IN
         IF r.exc THEN (IF Caught(r) THEN LoadFail("exception") ELSE LoadRaise)
         ELSE IF ~IsList(r.data) THEN LoadFail("notlist")
         ELSE LoadOk(AsSeq(r.data))

\* ---------------------------------------------------------------- filter
\* p.get(k, d) on a dict
Get(p, k, d) == IF k \in DOMAIN p.f THEN p.f[k] ELSE d

\* only a dict has .get; p.get on any other element raises AttributeError
HasGet(p) == p.t = "obj"

\* series_keyword and series_keyword.strip()
KeywordActive(series_keyword) ==
    series_keyword # <<>> /\ Strip(series_keyword) # <<>>

Query_unstripped(series_keyword) == series_keyword

\* q = series_keyword.strip()
Query(series_keyword) == Strip(series_keyword)

\* q in str(p.get("series", "")) or q in str(p.get("model", ""))
Matches(q, p) ==
    \/ Contains(q, Str(Get(p, "series", JStr(<<>>))))
    \/ Contains(q, Str(Get(p, "model", JStr(<<>>))))

\* the list comprehension over products, as indices into products
KeywordStage(products, q) ==
    SelectSeq([i \in 1..Len(products) |-> i], LAMBDA i : Matches(q, products[i]))

\* def num(v): try float(v) except: 0.0
num(v) == LET r == FloatOf(v) IN IF r.ok THEN r.val ELSE Fin(0)

\* lo <= x <= hi
InRange(lo, x, hi) == Le(Fin(lo), x) /\ Le(x, Fin(hi))

Passes_nobeam(p, a) ==
    LET w  == num(Get(p, "watt", JNum(0)))
        c  == num(Get(p, "cct", JNum(0)))
        l  == num(Get(p, "lumen", JNum(0)))
        pr == num(Get(p, "price", JNum(0)))
    IN  IF ~InRange(a.watt_lo, w, a.watt_hi) THEN FALSE
        ELSE IF ~InRange(a.cct_lo, c, a.cct_hi) THEN FALSE
        ELSE IF ~InRange(a.lumen_lo, l, a.lumen_hi) THEN FALSE
        ELSE IF ~InRange(a.price_lo, pr, a.price_hi) THEN FALSE
        ELSE TRUE

\* the body of the attribute loop: five `continue` tests, then append
Passes(p, a) ==
    LET w  == num(Get(p, "watt", JNum(0)))
        c  == num(Get(p, "cct", JNum(0)))
        b  == num(Get(p, "beam", JNum(0)))
        l  == num(Get(p, "lumen", JNum(0)))
        pr == num(Get(p, "price", JNum(0)))
    IN  IF ~InRange(a.watt_lo, w, a.watt_hi) THEN FALSE
        ELSE IF ~InRange(a.cct_lo, c, a.cct_hi) THEN FALSE
        ELSE IF ~InRange(a.beam_lo, b, a.beam_hi) THEN FALSE
        ELSE IF ~InRange(a.lumen_lo, l, a.lumen_hi) THEN FALSE
        ELSE IF ~InRange(a.price_lo, pr, a.price_hi) THEN FALSE
        ELSE TRUE

\* result = []; for p in base: ... result.append(p)
AttributeStage(products, base, a) ==
    SelectSeq(base, LAMBDA i : Passes(products[i], a))

Min(x, y) == IF x <= y THEN x ELSE y

Slice_offbyone(result, k) == SubSeq(result, 1, Min(k + 1, Len(result)))

\* result[:k]
Slice(result, k) ==
    IF k >= 0 THEN SubSeq(result, 1, Min(k, Len(result)))
    ELSE SubSeq(result, 1, Len(result) + k)

\* int(topk) of the slider's integer value
IntOf(topk) == topk

UnspecifiedSeries == <<"u", "n", "s", "p", "e", "c">>
Unnamed           == <<"u", "n", "n", "a", "m", "e", "d">>
Placeholder_zero  == <<"0">>
Placeholder       == <<"?">>

\* the f-string of one record: {it.get(k, default)} followed by the unit
RenderLine(it) ==
    [line   |-> "record",
     series |-> Str(Get(it, "series", JStr(UnspecifiedSeries))),
     model  |-> Str(Get(it, "model", JStr(Unnamed))),
     watt   |-> Str(Get(it, "watt", JStr(Placeholder))) \o <<"W">>,
     cct    |-> Str(Get(it, "cct", JStr(Placeholder))) \o <<"K">>,
     beam   |-> Str(Get(it, "beam", JStr(Placeholder))) \o <<"d", "e", "g">>,
     lumen  |-> Str(Get(it, "lumen", JStr(Placeholder))) \o <<"l", "m">>,
     price  |-> Str(Get(it, "price", JStr(Placeholder)))]

Header_displayed(result, topk) ==
    [line |-> "header", total |-> Len(result),
     shown |-> Min(IntOf(topk), Len(result))]

\* the header line: len(result) and int(topk)
Header(result, topk) ==
    [line |-> "header", total |-> Len(result), shown |-> IntOf(topk)]

\* lines = [header]; for it in result[:int(topk)]: lines.append(...)
Render(products, result, topk) ==
    LET shown == Slice(result, IntOf(topk)) IN
    <<Header(result, topk)>> \o [i \in 1..Len(shown) |-> RenderLine(products[shown[i]])]

\* the value a call ends with: a returned text or a propagated exception
Out(kind, kw, lines) == [kind |-> kind, kw |-> kw, lines |-> lines]

NoData_never(products) == FALSE

\* if not products
NoData(products) == products = <<>>

\* the whole call: the returned value and the locals base, result at exit
filter_products(products, a) ==
    LET active == KeywordActive(a.series_keyword)
        all    == [i \in 1..Len(products) |-> i]
    IN
    IF NoData(products)
      THEN [out |-> Out("nodata", <<>>, <<>>), base |-> <<>>, result |-> <<>>]
    ELSE IF active /\ \E i \in 1..Len(products) : ~HasGet(products[i])
      THEN [out |-> Out("raise", <<>>, <<>>), base |-> all, result |-> <<>>]
    ELSE LET base == IF active THEN KeywordStage(products, Query(a.series_keyword))
                     ELSE all
         IN
         IF active /\ base = <<>>
           THEN [out |-> Out("nokeyword", a.series_keyword, <<>>),
                 base |-> base, result |-> <<>>]
         ELSE IF \E j \in 1..Len(base) : ~HasGet(products[base[j]])
           THEN [out |-> Out("raise", <<>>, <<>>), base |-> base, result |-> <<>>]
         ELSE LET result == AttributeStage(products, base, a) IN
              IF result = <<>>
                THEN IF active
                       THEN [out |-> Out("noattr_keyword", a.series_keyword, <<>>),
                             base |-> base, result |-> result]
                       ELSE [out |-> Out("noattr", <<>>, <<>>),
                             base |-> base, result |-> result]
              ELSE [out |-> Out("report", <<>>, Render(products, result, a.topk)),
                    base |-> base, result |-> result]

ProductsAfter_inplace(products, a) ==
    IF products # <<>> /\ ~KeywordActive(a.series_keyword)
         /\ \A i \in 1..Len(products) : HasGet(products[i])
      THEN [j \in 1..Len(AttributeStage(products, [i \in 1..Len(products) |-> i], a))
              |-> products[AttributeStage(products, [i \in 1..Len(products) |-> i], a)[j]]]
    ELSE products

\* what a call leaves in the module-level list `products`: base aliases it or
\* is a new list, result is a new list, and nothing is appended to, removed
\* from or assigned into products
ProductsAfter(products, a) == products

\* ------------------------------------------------------------ the inputs
Track100 == <<"T", "r", "a", "c", "k", "-", "1", "0", "0">>
TR(d)    == <<"T", "R", "-", d>>
Track    == <<"T", "r", "a", "c", "k">>
Panel    == <<"P", "a", "n", "e", "l">>

\* a complete record
RecTrack ==
    JObj([series |-> JStr(Track100), model |-> JStr(TR("1")), watt |-> JNum(30),
          cct |-> JNum(3000), beam |-> JNum(24), lumen |-> JNum(2000),
          price |-> JNum(500)])

\* a record with neither series nor watt
RecNoWatt ==
    JObj([model |-> JStr(TR("2")), cct |-> JNum(3000), beam |-> JNum(24),
          lumen |-> JNum(2000), price |-> JNum(500)])

\* a record whose values are of every other JSON type
RecMessy ==
    JObj([series |-> JNum(30), model |-> JStr(Track), watt |-> JStr(<<"a", "b">>),
          cct |-> JNull, beam |-> JBool(TRUE),
          lumen |-> JStr(<<" ", "2", "0", " ">>), price |-> JArr(<<>>)])

\* a record whose watt is the text "nan"
RecNan ==
    JObj([series |-> JStr(Track100), model |-> JStr(TR("3")),
          watt |-> JStr(<<"n", "a", "n">>), cct |-> JNum(3000), beam |-> JNum(24),
          lumen |-> JNum(2000), price |-> JNum(500)])

\* what a JSON array can hold: objects, and values that are no object
Elements == {RecTrack, RecNoWatt, RecMessy, RecNan, JNum(5), JNull}

Arrays ==
    UNION {[1..n -> Elements] : n \in 0..MaxLen} \cup {[i \in 1..LongLen |-> RecTrack]}

Files ==
    {FileAbsent, FileUnreadable, FileBadJson}
      \cup {FileJson(v) : v \in {RecTrack, JNum(5), JNull, JStr(Track)}}
      \cup {FileJson(JArr(arr)) : arr \in Arrays}

Keywords == {<<>>, <<" ">>, Track, <<" ">> \o Track \o <<" ">>, Panel}

Bounds(wl, wh, cl, ch, bl, bh, ll, lh, pl, ph) ==
    [watt_lo |-> wl, watt_hi |-> wh, cct_lo |-> cl, cct_hi |-> ch,
     beam_lo |-> bl, beam_hi |-> bh, lumen_lo |-> ll, lumen_hi |-> lh,
     price_lo |-> pl, price_hi |-> ph]

\* the sliders' initial values, then ranges that admit a coerced 0, that
\* exclude on one attribute each, that end exactly on a value, and lo > hi
BoundsSet ==
    {Bounds(0, 200, 2700, 6500, 0, 120, 0, 15000, 0, 200000),
     Bounds(0, 200, 0, 7000, 0, 120, 0, 15000, 0, 200000),
     Bounds(10, 50, 0, 7000, 0, 120, 0, 15000, 0, 200000),
     Bounds(0, 200, 4000, 6500, 0, 120, 0, 15000, 0, 200000),
     Bounds(0, 200, 0, 7000, 30, 120, 0, 15000, 0, 200000),
     Bounds(0, 200, 0, 7000, 0, 120, 3000, 15000, 0, 200000),
     Bounds(0, 200, 0, 7000, 0, 120, 0, 15000, 1000, 200000),
     Bounds(30, 30, 3000, 3000, 24, 24, 2000, 2000, 500, 500),
     Bounds(50, 10, 0, 7000, 0, 120, 0, 15000, 0, 200000)}

TopKs == {1, 20}

ArgSet ==
    {[series_keyword |-> kw, topk |-> k, watt_lo |-> b.watt_lo, watt_hi |-> b.watt_hi,
      cct_lo |-> b.cct_lo, cct_hi |-> b.cct_hi, beam_lo |-> b.beam_lo,
      beam_hi |-> b.beam_hi, lumen_lo |-> b.lumen_lo, lumen_hi |-> b.lumen_hi,
      price_lo |-> b.price_lo, price_hi |-> b.price_hi] :
        kw \in Keywords, b \in BoundsSet, k \in TopKs}

\* ------------------------------------------------------------- the program
VARIABLES
    pc,        \* "start" before line 29 has run, "serving" after, "crashed"
    file,      \* the data file on disk
    products,  \* the module-level list
    load_msg,  \* the module-level status message
    loads,     \* how many times load_products has run
    called,    \* whether filter_products has been called
    args,      \* the arguments of the last call
    call       \* the last call at its exit: out, what it ended with, and
               \* its locals base and result, as indices into products

vars == <<pc, file, products, load_msg, loads, called, args, call>>

NoArgs == CHOOSE a \in ArgSet : TRUE

Init ==
    /\ pc = "start"
    /\ file \in Files
    /\ products = <<>>
    /\ load_msg = [ok |-> FALSE, why |-> "unset", count |-> 0]
    /\ loads = 0
    /\ called = FALSE
    /\ args = NoArgs
    /\ call = [out |-> Out("none", <<>>, <<>>), base |-> <<>>, result |-> <<>>]

\* products, load_msg = load_products()   at import
Load ==
    /\ pc = "start"
    /\ LET r == load_products(file) IN
         /\ pc' = IF r.raised THEN "crashed" ELSE "serving"
         /\ products' = r.data
         /\ load_msg' = r.msg
    /\ loads' = loads + 1
    /\ UNCHANGED <<file, called, args, call>>

\* btn_filter.click(filter_products, ...): one call, run to its end
Filter ==
    /\ pc = "serving"
    /\ \E a \in ArgSet :
         /\ args' = a
         /\ call' = filter_products(products, a)
         /\ products' = ProductsAfter(products, a)
    /\ called' = TRUE
    /\ UNCHANGED <<pc, file, load_msg, loads>>

Next == Load \/ Filter

Spec == Init /\ [][Next]_vars

\* ------------------------------------------------------------- properties
Fields == {"watt", "cct", "beam", "lumen", "price"}

Lo(a, f) ==
    CASE f = "watt" -> a.watt_lo [] f = "cct" -> a.cct_lo [] f = "beam" -> a.beam_lo
      [] f = "lumen" -> a.lumen_lo [] f = "price" -> a.price_lo

Hi(a, f) ==
    CASE f = "watt" -> a.watt_hi [] f = "cct" -> a.cct_hi [] f = "beam" -> a.beam_hi
      [] f = "lumen" -> a.lumen_hi [] f = "price" -> a.price_hi

Shown(line, f) ==
    CASE f = "watt" -> line.watt [] f = "cct" -> line.cct [] f = "beam" -> line.beam
      [] f = "lumen" -> line.lumen [] f = "price" -> line.price

Unit(f) ==
    CASE f = "watt" -> <<"W">> [] f = "cct" -> <<"K">> [] f = "beam" -> <<"d", "e", "g">>
      [] f = "lumen" -> <<"l", "m">> [] f = "price" -> <<>>

InSeq(x, seq) == \E k \in 1..Len(seq) : seq[k] = x

AttributeStageDone ==
    called /\ call.out.kind \in {"noattr", "noattr_keyword", "report"}

Rendered == called /\ call.out.kind = "report"

\* the coerced value of field f lies in its own bound pair, both ends inclusive
WithinBounds(p, a, f) ==
    LET x == num(Get(p, f, JNum(0))) IN ~x.nan /\ Lo(a, f) <= x.n /\ x.n <= Hi(a, f)

\* C1: once the attribute stage has run, a record that passed the keyword
\* stage is in the stage's result exactly when all five coerced values lie
\* within their own inclusive bounds, and the result holds nothing else.
C1_AttributeConjunction ==
    AttributeStageDone =>
      /\ \A j \in 1..Len(call.base) :
           InSeq(call.base[j], call.result)
             <=> \A f \in Fields : WithinBounds(products[call.base[j]], args, f)
      /\ \A k \in 1..Len(call.result) : InSeq(call.result[k], call.base)

\* a call kept one record and dropped another on the attribute bounds
C1_Witness ==
    /\ Rendered
    /\ Len(call.result) < Len(call.base)

\* no element's series or model text contains the trimmed keyword
NoTextMatch ==
    \A i \in 1..Len(products) :
      HasGet(products[i]) => ~Matches(Strip(args.series_keyword), products[i])

\* C2: with a non-empty collection, a keyword that is non-empty after
\* trimming and that no record's series or model text contains makes the
\* call return the no-series/model-match message naming the keyword,
\* whatever the bounds.
C2_KeywordShortCircuit ==
    (/\ called
     /\ products # <<>>
     /\ KeywordActive(args.series_keyword)
     /\ NoTextMatch)
      => /\ call.out.kind = "nokeyword"
         /\ Contains(Strip(args.series_keyword), call.out.kw)

\* C3 as stated: the header gives the number of surviving records and the
\* number of records displayed, min(topK, total).
C3_HeaderCountsDisplayed ==
    Rendered =>
      /\ call.out.lines[1].total = Len(call.result)
      /\ call.out.lines[1].shown = Min(args.topk, Len(call.result))
      /\ call.out.lines[1].shown = Len(call.out.lines) - 1

\* C3 amended: the header gives the number of surviving records and the
\* display cap int(topk); the cap is the number of record lines only when
\* at least topk records survive, and is larger otherwise.
C3_HeaderStatesCap ==
    Rendered =>
      /\ call.out.lines[1].line = "header"
      /\ call.out.lines[1].total = Len(call.result)
      /\ call.out.lines[1].shown = args.topk
      /\ (Len(call.result) < args.topk
            => call.out.lines[1].shown > Len(call.out.lines) - 1)
      /\ (Len(call.result) >= args.topk
            => call.out.lines[1].shown = Len(call.out.lines) - 1)

\* one surviving record reported under topk = 20
C3_Witness ==
    /\ Rendered
    /\ Len(call.result) = 1
    /\ args.topk = 20
    /\ Len(call.out.lines) = 2

\* C4: in a report the lines after the header are the first min(topK, n)
\* records of the n-record filtered sequence, one line each, and the
\* filtered sequence is a subsequence of the loaded collection in its
\* original order (indices strictly increasing, none repeated or invented).
C4_PrefixInOrder ==
    Rendered =>
      /\ Len(call.out.lines) - 1 = Min(args.topk, Len(call.result))
      /\ \A i \in 1..(Len(call.out.lines) - 1) :
           call.out.lines[i + 1] = RenderLine(load_products(file).data[call.result[i]])
      /\ \A i \in 1..Len(call.result) :
           call.result[i] \in 1..Len(load_products(file).data)
      /\ \A i \in 1..(Len(call.result) - 1) : call.result[i] < call.result[i + 1]

\* more records survive than topk admits: the long array under topk = 20,
\* and two survivors under topk = 1
C4_Witness ==
    /\ Rendered
    /\ Len(call.result) > args.topk
    /\ Len(call.out.lines) = args.topk + 1

\* float() accepts the value: a JSON number, or text of digits
IsNumeric(v) ==
    \/ v.t = "num"
    \/ v.t = "str" /\ Strip(v.s) # <<>>
         /\ \A i \in 1..Len(Strip(v.s)) : IsDigit(Strip(v.s)[i])

MissingOrNonNumeric(p, f) == f \notin DOMAIN p.f \/ ~IsNumeric(p.f[f])

\* C5 as stated: a missing or non-numeric field is compared as 0.0 and is
\* rendered as ? when the record is displayed.
C5_ZeroAndPlaceholder ==
    called =>
      /\ \A i \in 1..Len(products) : \A f \in Fields :
           HasGet(products[i]) /\ MissingOrNonNumeric(products[i], f)
             => num(Get(products[i], f, JNum(0))) = Fin(0)
      /\ Rendered =>
           \A i \in 1..(Len(call.out.lines) - 1) : \A f \in Fields :
             MissingOrNonNumeric(products[call.result[i]], f)
               => Shown(call.out.lines[i + 1], f) = <<"?">> \o Unit(f)

\* float() raises on the value: null, text that is no number, array, object
Rejected(v) ==
    \/ v.t \in {"null", "arr", "obj"}
    \/ v.t = "str" /\ ~IsNumeric(v) /\ Strip(v.s) # <<"n", "a", "n">>

\* C5 amended: a missing field is compared as 0.0 and rendered as ?; a
\* present field that float() rejects is compared as 0.0 too but is rendered
\* as its own text, not as ?; so a record with such a field survives only
\* under bounds that contain 0 for it.
C5_MissingPlaceholder ==
    called =>
      /\ \A i \in 1..Len(products) : \A f \in Fields :
           /\ HasGet(products[i])
           /\ (f \notin DOMAIN products[i].f \/ Rejected(products[i].f[f]))
           => /\ num(Get(products[i], f, JNum(0))) = Fin(0)
              /\ (AttributeStageDone /\ InSeq(i, call.result)
                    => Lo(args, f) <= 0 /\ 0 <= Hi(args, f))
      /\ Rendered =>
           \A i \in 1..(Len(call.out.lines) - 1) : \A f \in Fields :
             LET p == products[call.result[i]] IN
             /\ f \notin DOMAIN p.f
                  => Shown(call.out.lines[i + 1], f) = <<"?">> \o Unit(f)
             /\ f \in DOMAIN p.f
                  => Shown(call.out.lines[i + 1], f) = Str(p.f[f]) \o Unit(f)

\* a record without watt is displayed, with ?W
C5_Witness ==
    /\ Rendered
    /\ \E i \in 1..(Len(call.out.lines) - 1) :
         /\ "watt" \notin DOMAIN products[call.result[i]].f
         /\ call.out.lines[i + 1].watt = <<"?", "W">>

\* C6: a call never ends by propagating an exception.
C6_NeverRaises == called => call.out.kind # "raise"

\* the call the last one would have been with the keyword already trimmed
TrimmedCall ==
    filter_products(products, [args EXCEPT !.series_keyword = Strip(@)])

\* C7 as stated: the padded keyword and the trimmed keyword give the same
\* output in every outcome.
C7_PaddingSameOutput == called => call.out = TrimmedCall.out

\* C7 amended: the padded and the trimmed keyword give the same outcome, the
\* same surviving records and the same report, and a whitespace-only keyword
\* acts as the empty one; the two no-match messages quote the keyword as it
\* was passed, so they differ by exactly the padding.
C7_PaddingSameSelection ==
    called =>
      /\ call.out.kind = TrimmedCall.out.kind
      /\ call.base = TrimmedCall.base
      /\ call.result = TrimmedCall.result
      /\ call.out.lines = TrimmedCall.out.lines
      /\ (call.out.kind \in {"nokeyword", "noattr_keyword"}
            => /\ call.out.kw = args.series_keyword
               /\ TrimmedCall.out.kw = Strip(args.series_keyword))
      /\ (Strip(args.series_keyword) = <<>> => call.out.kw = <<>>)

\* a padded keyword selected records, and one ended in a no-match message
C7_Witness ==
    /\ called
    /\ args.series_keyword # Strip(args.series_keyword)
    /\ KeywordActive(args.series_keyword)
    /\ call.out.kind = "noattr_keyword"
    /\ Len(call.base) >= 1

\* C8: load_products has run exactly once before any call, and when it
\* returned an empty sequence every call returns the no-data message with
\* no filtering done.
C8_LoadOnceThenNoData ==
    /\ (pc = "start" => loads = 0 /\ ~called)
    /\ (pc # "start" => loads = 1)
    /\ (called /\ load_products(file).data = <<>>
          => /\ call.out.kind = "nodata"
             /\ call.base = <<>>
             /\ call.result = <<>>)

\* a call after a load that failed
C8_Witness ==
    /\ called
    /\ ~load_msg.ok
    /\ products = <<>>
    /\ call.out.kind = "nodata"

\* C9: load_products returns; an absent, unreadable, non-JSON or non-array
\* file gives an empty sequence and a failure status, an array gives the
\* array itself and a success status with its length, 0 for the empty array.
C9_LoadOutcome ==
    pc # "start" =>
      /\ pc = "serving"
      /\ (file.kind \in {"absent", "unreadable", "badjson"}
            => products = <<>> /\ ~load_msg.ok)
      /\ (file.kind = "json" /\ file.value.t # "arr"
            => products = <<>> /\ ~load_msg.ok)
      /\ (file.kind = "json" /\ file.value.t = "arr"
            => /\ products = file.value.items
               /\ load_msg.ok
               /\ load_msg.count = Len(file.value.items))
      /\ (file = FileJson(JArr(<<>>)) => load_msg.ok /\ load_msg.count = 0)

\* the empty array has been loaded
C9_Witness ==
    /\ pc = "serving"
    /\ file = FileJson(JArr(<<>>))
    /\ products = <<>>
    /\ load_msg.ok
    /\ load_msg.count = 0

\* C10: after any calls the collection is what was loaded: same records,
\* same values, same order.
C10_CollectionUnchanged ==
    called => products = load_products(file).data

\* a call without keyword, so base is the collection itself, dropped a record
C10_Witness ==
    /\ Rendered
    /\ ~KeywordActive(args.series_keyword)
    /\ Len(call.result) < Len(products)

====
